---- MODULE Spec2Model ----
(***************************************************************************)
(* Model of src/monitor.go: the monitor dispatch listener                  *)
(* (monitorListener), the monitor registration helpers, and the built-in   *)
(* command monitor (CommandHandlerMonitor) with its flag extraction.       *)
(*                                                                         *)
(* A text is a sequence of characters; a character is a one-element        *)
(* string, or a name for a character outside ASCII ("EMDASH", "LDQUO",     *)
(* "RDQUO", "LSQUO", "RSQUO").  The texts the specifications feed in are   *)
(* ASCII, so a byte offset (Go's len) and a character offset agree.        *)
(***************************************************************************)
EXTENDS Integers, Sequences, FiniteSets, TLC

(***************************************************************************)
(* Character classes of Go's regexp (RE2) syntax.                          *)
(***************************************************************************)
Digits == {"0", "1", "2", "3", "4", "5", "6", "7", "8", "9"}

LowerSeq == << "a", "b", "c", "d", "e", "f", "g", "h", "i", "j", "k", "l", "m",
               "n", "o", "p", "q", "r", "s", "t", "u", "v", "w", "x", "y", "z" >>

UpperSeq == << "A", "B", "C", "D", "E", "F", "G", "H", "I", "J", "K", "L", "M",
               "N", "O", "P", "Q", "R", "S", "T", "U", "V", "W", "X", "Y", "Z" >>

Range(f) == { f[x] : x \in DOMAIN f }

\* \w  ==  [0-9A-Za-z_]
IsWord(c) == c \in Digits \cup Range(LowerSeq) \cup Range(UpperSeq) \cup {"_"}

\* [\w-]
IsNameChar(c) == IsWord(c) \/ c = "-"

\* \s  ==  [\t\n\f\r ]
IsSpace(c) == c \in {" ", "\t", "\n", "\f", "\r"}

(***************************************************************************)
(* strings package                                                         *)
(***************************************************************************)
\* HasPrefix with the comparison of the characters left out
HasPrefixLengthOnly(s, p) == Len(s) >= Len(p)

\* strings.HasPrefix(s, p)
HasPrefix(s, p) == Len(s) >= Len(p) /\ SubSeq(s, 1, Len(p)) = p

\* unicode.ToLower on one character
LowerChar(c) ==
  IF c \in Range(UpperSeq)
    THEN LowerSeq[CHOOSE i \in DOMAIN UpperSeq : UpperSeq[i] = c]
    ELSE c

\* strings.ToLower(s)
ToLower(s) == [i \in 1..Len(s) |-> LowerChar(s[i])]

RECURSIVE TrimLeft(_)
TrimLeft(s) ==
  IF s # <<>> /\ Head(s) = " " THEN TrimLeft(Tail(s)) ELSE s

RECURSIVE TrimRight(_)
TrimRight(s) ==
  IF s # <<>> /\ s[Len(s)] = " " THEN TrimRight(SubSeq(s, 1, Len(s) - 1)) ELSE s

\* strings.Trim(s, " "): only the space character is in the cutset
Trim(s) == TrimRight(TrimLeft(s))

\* strings.Split(s, " "): one field more than there are separators, so the
\* result always holds at least one (possibly empty) field
RECURSIVE SplitFrom(_, _, _)
SplitFrom(s, i, cur) ==
  IF i > Len(s) THEN << cur >>
  ELSE IF s[i] = " " THEN << cur >> \o SplitFrom(s, i + 1, <<>>)
  ELSE SplitFrom(s, i + 1, Append(cur, s[i]))

Split(s) == SplitFrom(s, 1, <<>>)

(***************************************************************************)
(* flagsRegex, matched the way Go's leftmost-first engine matches it.      *)
(***************************************************************************)
\* [\w-]* from i on: end (exclusive) of the longest run
RECURSIVE RunEnd(_, _)
RunEnd(s, i) ==
  IF i <= Len(s) /\ IsNameChar(s[i]) THEN RunEnd(s, i + 1) ELSE i

\* (?:--|EMDASH): position after the introducer, 0 when there is none
IntroEnd(s, i) ==
  IF i + 1 <= Len(s) /\ s[i] = "-" /\ s[i + 1] = "-" THEN i + 2
  ELSE IF i <= Len(s) /\ s[i] = "EMDASH" THEN i + 1
  ELSE 0

\* (\w[\w-]+): position after the name that starts at j, 0 when there is none.
\* The name is greedy and nothing after it is mandatory, so it is never
\* shortened by backtracking.
NameEnd(s, j) ==
  IF j + 1 <= Len(s) /\ IsWord(s[j]) /\ IsNameChar(s[j + 1])
    THEN RunEnd(s, j + 2)
    ELSE 0

\* ((?:[^Q\\]|\\.)*): end (exclusive) of the body of a quoted value; Q is the
\* set of closing quote characters.  "." does not match a newline.
RECURSIVE QuotedBodyEnd(_, _, _)
QuotedBodyEnd(s, p, Q) ==
  IF p > Len(s) THEN p
  ELSE IF s[p] \notin Q /\ s[p] # "\\" THEN QuotedBodyEnd(s, p + 1, Q)
  ELSE IF s[p] = "\\" /\ p + 1 <= Len(s) /\ s[p + 1] # "\n"
    THEN QuotedBodyEnd(s, p + 2, Q)
  ELSE p

\* [Q]((?:[^Q\\]|\\.)*)[Q] at position p: [ok, end, text]
Quoted(s, p, Q) ==
  IF p <= Len(s) /\ s[p] \in Q
    THEN LET b == QuotedBodyEnd(s, p + 1, Q)
         IN  IF b <= Len(s) /\ s[b] \in Q
               THEN [ok |-> TRUE, end |-> b + 1, text |-> SubSeq(s, p + 1, b - 1)]
               ELSE [ok |-> FALSE, end |-> 0, text |-> <<>>]
    ELSE [ok |-> FALSE, end |-> 0, text |-> <<>>]

\* the four quote styles, in the order the alternation tries them
QuoteStyles == << {"\""}, {"'"}, {"LDQUO", "RDQUO"}, {"LSQUO", "RSQUO"} >>

NoGroups == << <<>>, <<>>, <<>>, <<>>, <<>> >>

\* (?:=(?:"..."|'...'|...|([\w-]+)))? at position k (after the name):
\* [end, groups], groups being capture groups 2..6
ValueAt(s, k) ==
  IF ~(k <= Len(s) /\ s[k] = "=") THEN [end |-> k, groups |-> NoGroups]
  ELSE LET q == [n \in 1..4 |-> Quoted(s, k + 1, QuoteStyles[n])]
           hit == { n \in 1..4 : q[n].ok }
           bare == RunEnd(s, k + 1)
       IN  IF hit # {}
             THEN LET n == CHOOSE x \in hit : \A y \in hit : x <= y
                  IN  [end |-> q[n].end,
                       groups |-> [g \in 1..5 |-> IF g = n THEN q[n].text ELSE <<>>]]
           ELSE IF bare > k + 1
             THEN [end |-> bare,
                   groups |-> [g \in 1..5 |->
                                 IF g = 5 THEN SubSeq(s, k + 1, bare - 1) ELSE <<>>]]
           ELSE [end |-> k, groups |-> NoGroups]

\* flagsRegex anchored at position i: [ok, end, name, groups]
MatchAt(s, i) ==
  LET j == IntroEnd(s, i)
      k == IF j = 0 THEN 0 ELSE NameEnd(s, j)
  IN  IF k = 0
        THEN [ok |-> FALSE, end |-> i, name |-> <<>>, groups |-> NoGroups]
        ELSE LET v == ValueAt(s, k)
             IN  [ok |-> TRUE, end |-> v.end, name |-> SubSeq(s, j, k - 1),
                  groups |-> v.groups]

\* flagsRegex.FindStringSubmatch(m): the leftmost match in m, as
\* << whole match, name, group 2, ..., group 6 >>; << >> when m has no match
RECURSIVE FindFrom(_, _)
FindFrom(s, i) ==
  IF i > Len(s) THEN <<>>
  ELSE LET m == MatchAt(s, i)
       IN  IF m.ok
             THEN << SubSeq(s, i, m.end - 1), m.name >> \o m.groups
             ELSE FindFrom(s, i + 1)

FindStringSubmatch(s) == FindFrom(s, 1)

(***************************************************************************)
(* The flag callback of CommandHandlerMonitor and the two replacements.    *)
(***************************************************************************)
\* flags[k] = v on a Go map
MapSet(flags, k, v) ==
  [x \in DOMAIN flags \cup {k} |-> IF x = k THEN v ELSE flags[x]]

\* FlagLoop without its else branch: a flag without a value is not recorded
RECURSIVE FlagLoopNoDefault(_, _, _)
FlagLoopNoDefault(flags, sub, n) ==
  IF n > Len(sub) THEN flags
  ELSE IF sub[n] # <<>> THEN MapSet(flags, sub[2], sub[n])
  ELSE FlagLoopNoDefault(flags, sub, n + 1)

\* FlagLoop storing the first capture group whatever it holds
FlagLoopFirstGroup(flags, sub, n) ==
  IF n > Len(sub) THEN flags ELSE MapSet(flags, sub[2], sub[n])

\* for _, elem := range sub[2:] { if elem != "" { flags[sub[1]] = elem; break }
\*                                else { flags[sub[1]] = sub[1] } }
RECURSIVE FlagLoop(_, _, _)
FlagLoop(flags, sub, n) ==
  IF n > Len(sub) THEN flags
  ELSE IF sub[n] # <<>> THEN MapSet(flags, sub[2], sub[n])
  ELSE FlagLoop(MapSet(flags, sub[2], sub[2]), sub, n + 1)

\* FlagCallback leaving a name alone that the mapping already holds
FlagCallbackFirstWins(flags, m) ==
  IF FindStringSubmatch(m)[2] \in DOMAIN flags
    THEN [flags |-> flags, repl |-> <<>>]
    ELSE [flags |-> FlagLoop(flags, FindStringSubmatch(m), 3), repl |-> <<>>]

\* FlagCallback returning the match instead of the empty string
FlagCallbackKeep(flags, m) ==
  [flags |-> FlagLoop(flags, FindStringSubmatch(m), 3), repl |-> m]

\* the function handed to ReplaceAllStringFunc: it re-matches the matched
\* text m, fills the flags, and returns the empty replacement
FlagCallback(flags, m) ==
  LET sub == FindStringSubmatch(m)
  IN  [flags |-> FlagLoop(flags, sub, 3), repl |-> <<>>]

\* flagsRegex.ReplaceAllStringFunc(content, callback): the matches are taken
\* left to right, never overlapping; [text, flags]
RECURSIVE ReplaceFlagsFrom(_, _, _, _)
ReplaceFlagsFrom(s, i, out, flags) ==
  IF i > Len(s) THEN [text |-> out, flags |-> flags]
  ELSE LET m == MatchAt(s, i)
       IN  IF m.ok
             THEN LET r == FlagCallback(flags, SubSeq(s, i, m.end - 1))
                  IN  ReplaceFlagsFrom(s, m.end, out \o r.repl, r.flags)
             ELSE ReplaceFlagsFrom(s, i + 1, Append(out, s[i]), flags)

EmptyFlags == [x \in {} |-> <<>>]

ReplaceFlags(s) == ReplaceFlagsFrom(s, 1, <<>>, EmptyFlags)

\* end (exclusive) of the run of \s characters from i on
RECURSIVE SpaceEnd(_, _)
SpaceEnd(s, i) ==
  IF i <= Len(s) /\ IsSpace(s[i]) THEN SpaceEnd(s, i + 1) ELSE i

\* delim.ReplaceAllString(s, "$1") with delim = (\s)(?:\s)+ : every run of two
\* or more whitespace characters is replaced by its first character
RECURSIVE CollapseFrom(_, _)
CollapseFrom(s, i) ==
  IF i > Len(s) THEN <<>>
  ELSE IF IsSpace(s[i]) /\ i + 1 <= Len(s) /\ IsSpace(s[i + 1])
    THEN << s[i] >> \o CollapseFrom(s, SpaceEnd(s, i))
  ELSE << s[i] >> \o CollapseFrom(s, i + 1)

\* Collapse left out: the text goes to strings.Trim as the flag removal left it
CollapseNone(s) == s

Collapse(s) == CollapseFrom(s, 1)

\* the cleaned text of lines 132-143, from the outcome r of the replacement
Cleaned(r) == [flags |-> r.flags, content |-> Trim(Collapse(r.text))]

\* lines 131-143: the flag mapping and the cleaned content of a message text
ExtractFlags(text) == Cleaned(ReplaceFlags(text))

\* SplitContent with args = split in the place of split[1:]
SplitContentArgsAll(c, prefix) ==
  IF Len(prefix) > Len(c.content)
    THEN [panic |-> TRUE, flags |-> c.flags, content |-> c.content,
          split |-> <<>>, input |-> <<>>, args |-> <<>>]
    ELSE LET split == Split(SubSeq(c.content, Len(prefix) + 1, Len(c.content)))
         IN  [panic |-> FALSE, flags |-> c.flags, content |-> c.content,
              split |-> split,
              input |-> ToLower(split[1]),
              args |-> IF Len(split) > 1 THEN split ELSE <<>>]

\* lines 145-156, from the flags and content c of lines 131-143:
\* content[len(prefix):] panics when the content is shorter than the prefix;
\* otherwise the split, the command token and the arguments
SplitContent(c, prefix) ==
  IF Len(prefix) > Len(c.content)
    THEN [panic |-> TRUE, flags |-> c.flags, content |-> c.content,
          split |-> <<>>, input |-> <<>>, args |-> <<>>]
    ELSE LET split == Split(SubSeq(c.content, Len(prefix) + 1, Len(c.content)))
         IN  [panic |-> FALSE, flags |-> c.flags, content |-> c.content,
              split |-> split,
              input |-> ToLower(split[1]),
              args |-> IF Len(split) > 1 THEN Tail(split) ELSE <<>>]

\* lines 131-156 for a text that starts with the prefix
Tokenize(text, prefix) == SplitContent(ExtractFlags(text), prefix)

(***************************************************************************)
(* State.                                                                  *)
(***************************************************************************)
VARIABLES
  Monitors,        \* bot.Monitors, in registration order
  toggles,         \* number of setter calls made on registered monitors
  Prefix,          \* what bot.Prefix resolves to
  Commands,        \* the command registry behind bot.GetCommand
  Lang,            \* what bot.Language resolves to
  CommandTyping,   \* bot.CommandTyping
  State,           \* s.State: the guilds and channels the session knows
  now,             \* the clock bot.CheckCooldown reads
  cooldowns,       \* (user, command) -> expiry
  CommandsRan,     \* bot.CommandsRan
  pc,              \* "setup", "loop" (inside the listener), "idle", "crashed";
                   \* "concurrent" while several listener calls are under way
  ev,              \* the MessageCreate the listener is working on
  idx,             \* position of the range loop over bot.Monitors
  outcome,         \* per visited monitor: the gate that skipped it, or "run"
  calls,           \* the monitor.Run invocations of this listener call
  errors,          \* the values handed to bot.ErrorHandler
  replies,         \* the cctx.ReplyLocale calls of this listener call
  typing,          \* the Session.ChannelTyping calls of this listener call
  cooldownChecks,  \* the bot.CheckCooldown calls of this listener call
  ran,             \* the CommandContexts handed to cmd.Run in this call
  tok,             \* flags, content, split of the last CommandHandlerMonitor run
  tasks            \* the goroutines discordgo runs the listener on, when it runs several

config == << Monitors, toggles, Prefix, Commands, Lang, CommandTyping, State >>
shared == << now, cooldowns, CommandsRan >>
listener == << pc, ev, idx, outcome, calls, errors >>
command == << replies, typing, cooldownChecks, ran, tok >>
vars == << config, shared, listener, command, tasks >>

(***************************************************************************)
(* Monitor and its builders (lines 12-52).                                 *)
(***************************************************************************)
NewMonitor(name, monitor) ==
  [ Name |-> name,
    Enabled |-> TRUE,
    Run |-> monitor,
    GuildOnly |-> FALSE,
    IgnoreWebhooks |-> TRUE,
    IgnoreBots |-> TRUE,
    IgnoreSelf |-> TRUE ]

\* AllowBots clearing the flag of AllowWebhooks
AllowBotsOnWrongFlag(m) == [m EXCEPT !.IgnoreWebhooks = FALSE]

AllowBotsOn(m) == [m EXCEPT !.IgnoreBots = FALSE]

AllowWebhooksOn(m) == [m EXCEPT !.IgnoreWebhooks = FALSE]

AllowSelfOn(m) == [m EXCEPT !.IgnoreSelf = FALSE]

SetGuildOnlyOn(m, toggle) == [m EXCEPT !.GuildOnly = toggle]

\* a write of the exported field Monitor.Enabled
SetEnabledOn(m, toggle) == [m EXCEPT !.Enabled = toggle]

(***************************************************************************)
(* The gates of one loop iteration of monitorListener (lines 67-97).       *)
(***************************************************************************)
SelfID == "self"      \* s.State.User.ID

NoGuild == "nil"      \* var guild *discordgo.Guild = nil

\* s.State.Guild(id) / s.State.Channel(id): err != nil iff the id is unknown
GuildLookupFails(st, id) == id \notin st.Guilds

ChannelLookupFails(st, id) == id \notin st.Channels

\* ResolveGuild going on with guild = nil when the lookup fails
ResolveGuildNil(m, st) ==
  IF m.GuildID # "" /\ ~GuildLookupFails(st, m.GuildID)
    THEN [continue |-> FALSE, guild |-> m.GuildID]
    ELSE [continue |-> FALSE, guild |-> NoGuild]

\* lines 71-78: the guild of the event, or the `continue` of a failed lookup
ResolveGuild(m, st) ==
  IF m.GuildID # ""
    THEN IF GuildLookupFails(st, m.GuildID)
           THEN [continue |-> TRUE, guild |-> NoGuild]
           ELSE [continue |-> FALSE, guild |-> m.GuildID]
    ELSE [continue |-> FALSE, guild |-> NoGuild]

\* Gate without the GuildOnly check of line 80
GateNoGuildOnly(monitor, m, st) ==
  LET g == ResolveGuild(m, st)
  IN  IF ~monitor.Enabled THEN "disabled"
      ELSE IF g.continue THEN "guildLookup"
      ELSE IF m.AuthorID = SelfID /\ monitor.IgnoreSelf THEN "self"
      ELSE IF m.AuthorBot /\ monitor.IgnoreBots THEN "bot"
      ELSE IF m.WebhookID # "" /\ monitor.IgnoreWebhooks THEN "webhook"
      ELSE IF ChannelLookupFails(st, m.ChannelID) THEN "channelLookup"
      ELSE "run"

\* Gate without the `continue` of line 97
GateNoChannelLookup(monitor, m, st) ==
  LET g == ResolveGuild(m, st)
  IN  IF ~monitor.Enabled THEN "disabled"
      ELSE IF g.continue THEN "guildLookup"
      ELSE IF monitor.GuildOnly /\ g.guild = NoGuild THEN "guildOnly"
      ELSE IF m.AuthorID = SelfID /\ monitor.IgnoreSelf THEN "self"
      ELSE IF m.AuthorBot /\ monitor.IgnoreBots THEN "bot"
      ELSE IF m.WebhookID # "" /\ monitor.IgnoreWebhooks THEN "webhook"
      ELSE "run"

\* which `continue` the iteration takes, or "run" when it reaches monitor.Run
Gate(monitor, m, st) ==
  LET g == ResolveGuild(m, st)
  IN  IF ~monitor.Enabled THEN "disabled"
      ELSE IF g.continue THEN "guildLookup"
      ELSE IF monitor.GuildOnly /\ g.guild = NoGuild THEN "guildOnly"
      ELSE IF m.AuthorID = SelfID /\ monitor.IgnoreSelf THEN "self"
      ELSE IF m.AuthorBot /\ monitor.IgnoreBots THEN "bot"
      ELSE IF m.WebhookID # "" /\ monitor.IgnoreWebhooks THEN "webhook"
      ELSE IF ChannelLookupFails(st, m.ChannelID) THEN "channelLookup"
      ELSE "run"

\* the MonitorContext of lines 99-107
MonitorContext(monitor, m, st) ==
  [ Message |-> m, Author |-> m.AuthorID, Channel |-> m.ChannelID,
    Monitor |-> monitor.Name, Guild |-> ResolveGuild(m, st).guild ]

(***************************************************************************)
(* Collaborators of CommandHandlerMonitor whose code is not in monitor.go. *)
(***************************************************************************)
OwnerID == "owner"    \* bot.OwnerID

Languages == {"en-US"}    \* the keys of bot.Languages

NoCommand == [Name |-> <<>>, Enabled |-> FALSE, OwnerOnly |-> FALSE,
              GuildOnly |-> FALSE, Cooldown |-> 0, found |-> FALSE]

\* bot.GetCommand(input): exact match of the lower-cased token against the
\* registered names; nil when there is none
GetCommand(cmds, input) ==
  IF input \in DOMAIN cmds THEN cmds[input] ELSE NoCommand

\* bot.CheckCooldown(userID, command, cooldown) read at time t:
\* [canRun, after, table]
CheckCooldown(table, t, user, name, cooldown) ==
  LET key == << user, name >>
  IN  IF cooldown = 0
        THEN [canRun |-> TRUE, after |-> 0, table |-> table]
      ELSE IF key \in DOMAIN table /\ t < table[key]
        THEN [canRun |-> FALSE, after |-> table[key] - t, table |-> table]
      ELSE [canRun |-> TRUE, after |-> 0,
            table |-> [k \in DOMAIN table \cup {key} |->
                         IF k = key THEN t + cooldown ELSE table[k]]]

(***************************************************************************)
(* CommandHandlerMonitor (lines 123-224).  parseOK is what cctx.ParseArgs  *)
(* returns and runResult how cmd.Run ends ("done" or "panic"); both are    *)
(* outside monitor.go.  The result names the return point taken (at), says *)
(* whether the handler panicked, and gives the effects of the call.        *)
(***************************************************************************)
NoTok == [at |-> "none", flags |-> EmptyFlags, content |-> <<>>, args |-> <<>>]

Effects(at, panic, t, sent, typed, checked, table, inc, run) ==
  [ at |-> at, panic |-> panic,
    tok |-> [at |-> at, flags |-> t.flags, content |-> t.content, args |-> t.args],
    replies |-> sent, typing |-> typed, cooldownChecks |-> checked,
    cooldowns |-> table, CommandsRan |-> inc, ran |-> run ]

\* a return (or panic) before anything was sent, counted or run
Quiet(at, panic, t, table) == Effects(at, panic, t, <<>>, 0, 0, table, 0, <<>>)

\* cctx.ReplyLocale(key, args...) and return
Reply(at, t, key, arg, typed, checked, table) ==
  Effects(at, FALSE, t, << [key |-> key, arg |-> arg] >>, typed, checked, table, 0, <<>>)

\* LocaleRegistered without the check of ok (line 182)
LocaleUnchecked(lang) == TRUE

\* lines 179-185: bot.Languages[lang] has an entry
LocaleRegistered(lang) == lang \in Languages

\* Validate with the owner-only check moved in front of the disabled check
ValidateOwnerFirst(cmd, ctx) ==
  IF cmd.OwnerOnly /\ ctx.Author # OwnerID THEN "ownerOnly"
  ELSE IF ~cmd.Enabled THEN "disabled"
  ELSE IF cmd.GuildOnly /\ ctx.Message.GuildID = "" THEN "guildOnly"
  ELSE "ok"

\* lines 191-204: the validation that fails first, or "ok"
Validate(cmd, ctx) ==
  IF ~cmd.Enabled THEN "disabled"
  ELSE IF cmd.OwnerOnly /\ ctx.Author # OwnerID THEN "ownerOnly"
  ELSE IF cmd.GuildOnly /\ ctx.Message.GuildID = "" THEN "guildOnly"
  ELSE "ok"

\* the key each failed validation replies with
ValidationReply ==
  [ disabled |-> "COMMAND_DISABLED", ownerOnly |-> "COMMAND_OWNER_ONLY",
    guildOnly |-> "COMMAND_GUILD_ONLY" ]

\* CooldownCall handing the channel id over in the place of the author id
CooldownCallByChannel(tbl, t, ctx, cmd) ==
  CheckCooldown(tbl, t, ctx.Channel, cmd.Name, cmd.Cooldown)

\* line 216: the call of bot.CheckCooldown, on the cooldown table tbl at time t
CooldownCall(tbl, t, ctx, cmd) ==
  CheckCooldown(tbl, t, ctx.Author, cmd.Name, cmd.Cooldown)

\* Execute without the return after the COMMAND_COOLDOWN reply
ExecuteNoReturn(t, cctx, typed, cd, runResult) ==
  Effects("run", runResult = "panic", t,
          IF cd.canRun THEN <<>>
          ELSE << [key |-> "COMMAND_COOLDOWN", arg |-> cd.after] >>,
          typed, 1, cd.table, 1, << cctx >>)

\* lines 216-223, cd being what bot.CheckCooldown returned
Execute(t, cctx, typed, cd, runResult) ==
  IF ~cd.canRun
    THEN Reply("cooldown", t, "COMMAND_COOLDOWN", cd.after, typed, 1, cd.table)
    ELSE Effects("run", runResult = "panic", t, <<>>, typed, 1, cd.table, 1,
                 << cctx >>)

\* lines 145-223, t being what lines 131-156 computed
Dispatch(ctx, t, parseOK, runResult) ==
  IF t.panic THEN Quiet("sliceOutOfRange", TRUE, t, cooldowns)
  ELSE IF Len(t.split) < 1 THEN Quiet("noToken", FALSE, t, cooldowns)
  ELSE
  LET cmd == GetCommand(Commands, t.input) IN
  IF ~cmd.found THEN Quiet("noCommand", FALSE, t, cooldowns)
  ELSE
  LET cctx == [ Command |-> cmd.Name, Author |-> ctx.Author,
                Channel |-> ctx.Channel, RawArgs |-> t.args, Prefix |-> Prefix,
                Guild |-> ctx.Guild, Flags |-> t.flags, Locale |-> Lang ]
      typed == IF CommandTyping THEN 1 ELSE 0
      gate == Validate(cmd, ctx)
  IN
  IF ~LocaleRegistered(Lang) THEN Quiet("noLanguage", FALSE, t, cooldowns)
  ELSE IF gate # "ok"
    THEN Reply(gate, t, ValidationReply[gate], 0, 0, 0, cooldowns)
  ELSE IF ~parseOK THEN Quiet("parseArgs", FALSE, t, cooldowns)
  ELSE Execute(t, cctx, typed, CooldownCall(cooldowns, now, ctx, cmd), runResult)

CommandHandlerMonitor(ctx, parseOK, runResult) ==
  IF ~HasPrefix(ctx.Message.Content, Prefix)
    THEN Quiet("noPrefix", FALSE, NoTok, cooldowns)
    ELSE Dispatch(ctx, Tokenize(ctx.Message.Content, Prefix), parseOK, runResult)

(***************************************************************************)
(* Bounds and the inputs the specifications draw from.                     *)
(***************************************************************************)
MaxMonitors == 2     \* monitors registered
MaxToggles == 1      \* setter calls during registration
MaxRan == 1          \* commands executed before the model stops feeding events
MaxPieces == 5       \* pieces a message text is put together from

\* how an opaque handler (a user monitor, a command's Run) can end
RunResults == {"done", "panic"}

\* the handlers a monitor can be registered with: the built-in command
\* monitor and a user-written one
Handlers == {"CommandHandlerMonitor", "user"}

\* the registry: command "a", and command "aa", which is disabled
TheCommand == << "a" >>

DisabledCommand == << "a", "a" >>

DefaultCommands ==
  [n \in {TheCommand, DisabledCommand} |->
     [Name |-> n, Enabled |-> (n = TheCommand), OwnerOnly |-> FALSE,
      GuildOnly |-> FALSE, Cooldown |-> 0, found |-> TRUE]]

\* texts of the events of the dispatch specification: a command, a disabled
\* command, a text that is no command
DispatchTexts == { << "!", "a" >>, << "!", "a", "a" >>, << "a" >> }

\* A message text is put together from at most MaxPieces pieces: the
\* characters ! space - = a, the introducer --, and the flag stem --aa.
Pieces == { << "!" >>, << " " >>, << "-" >>, << "=" >>, << "a" >>,
            << "-", "-" >>, << "-", "-", "a", "a" >> }

RECURSIVE TextsUpTo(_)
TextsUpTo(n) ==
  IF n = 0 THEN { <<>> }
  ELSE LET shorter == TextsUpTo(n - 1)
       IN  shorter \cup { t \o p : t \in shorter, p \in Pieces }

MsgTexts == TextsUpTo(MaxPieces)

\* what bot.Prefix resolves to in the message specification: no prefix (as
\* a resolver may answer for a DM), "!", and "! "
Prefixes == { <<>>, << "!" >>, << "!", " " >> }

Events(texts) ==
  [ Content : texts, AuthorID : {SelfID, "user"}, AuthorBot : BOOLEAN,
    WebhookID : {"", "w"}, GuildID : {"", "g"}, ChannelID : {"c"} ]

SessionStates == [ Guilds : SUBSET {"g"}, Channels : SUBSET {"c"} ]

(***************************************************************************)
(* Registration: monitors are built and added before the first event.      *)
(***************************************************************************)
AddMonitor(name, run) ==
  /\ pc = "setup"
  /\ Len(Monitors) < MaxMonitors
  /\ Monitors' = Append(Monitors, NewMonitor(name, run))
  /\ UNCHANGED << tasks, toggles, Prefix, Commands, Lang, CommandTyping, State,
                  shared, listener, command >>

Setter(i, m) ==
  /\ pc = "setup"
  /\ toggles < MaxToggles
  /\ i \in DOMAIN Monitors
  /\ Monitors' = [Monitors EXCEPT ![i] = m]
  /\ toggles' = toggles + 1
  /\ UNCHANGED << tasks, Prefix, Commands, Lang, CommandTyping, State,
                  shared, listener, command >>

AllowBots(i) == i \in DOMAIN Monitors /\ Setter(i, AllowBotsOn(Monitors[i]))

AllowWebhooks(i) == i \in DOMAIN Monitors /\ Setter(i, AllowWebhooksOn(Monitors[i]))

AllowSelf(i) == i \in DOMAIN Monitors /\ Setter(i, AllowSelfOn(Monitors[i]))

SetGuildOnly(i, toggle) ==
  i \in DOMAIN Monitors /\ Setter(i, SetGuildOnlyOn(Monitors[i], toggle))

SetEnabled(i, toggle) ==
  i \in DOMAIN Monitors /\ Setter(i, SetEnabledOn(Monitors[i], toggle))

(***************************************************************************)
(* The listener returned by monitorListener (lines 65-114).                *)
(***************************************************************************)
\* discordgo calls the listener with a MessageCreate
Receive(m) ==
  /\ pc \in {"setup", "idle"}
  /\ CommandsRan < MaxRan
  /\ pc' = "loop"
  /\ ev' = m
  /\ idx' = 1
  /\ outcome' = <<>>
  /\ calls' = <<>>
  /\ replies' = <<>>
  /\ typing' = 0
  /\ cooldownChecks' = 0
  /\ ran' = <<>>
  /\ tok' = NoTok
  /\ UNCHANGED << tasks, config, shared, errors >>

\* what monitor.Run does: the effects of the handler the monitor was built with
RunHandler(monitor, ctx, parseOK, runResult) ==
  IF monitor.Run = "CommandHandlerMonitor"
    THEN CommandHandlerMonitor(ctx, parseOK, runResult)
    ELSE Effects("user", runResult = "panic", NoTok, <<>>, 0, 0, cooldowns, 0, <<>>)

\* The next position of the range loop.
NextIdx(i) == i + 1

\* Lines 99-107: monitor i was called with ctx and its handler did e.  A panic
\* of the handler unwinds the listener at once: the deferred recover of lines
\* 109-113 is not registered before the loop has ended, so nothing catches
\* it and the program dies.
Invoke(i, ctx, e) ==
  /\ outcome' = Append(outcome, "run")
  /\ calls' = Append(calls, [monitor |-> i, guild |-> ctx.Guild, at |-> e.at,
                             panic |-> e.panic])
  /\ replies' = replies \o e.replies
  /\ typing' = typing + e.typing
  /\ cooldownChecks' = cooldownChecks + e.cooldownChecks
  /\ cooldowns' = e.cooldowns
  /\ CommandsRan' = CommandsRan + e.CommandsRan
  /\ ran' = ran \o e.ran
  /\ tok' = IF e.at = "user" THEN tok ELSE e.tok
  /\ pc' = IF e.panic THEN "crashed" ELSE pc
  /\ idx' = IF e.panic THEN i ELSE NextIdx(i)
  /\ UNCHANGED << tasks, config, now, ev, errors >>

\* Skip with `break` in the place of `continue`
SkipBreak(gate) ==
  /\ outcome' = Append(outcome, gate)
  /\ idx' = Len(Monitors) + 1
  /\ UNCHANGED << tasks, config, shared, pc, ev, calls, errors, command >>

\* Lines 67-97: the iteration ends in a `continue`.
Skip(gate) ==
  /\ outcome' = Append(outcome, gate)
  /\ idx' = NextIdx(idx)
  /\ UNCHANGED << tasks, config, shared, pc, ev, calls, errors, command >>

\* One iteration of the range loop (lines 66-108).
Visit ==
  /\ pc = "loop"
  /\ idx <= Len(Monitors)
  /\ IF Gate(Monitors[idx], ev, State) # "run"
       THEN Skip(Gate(Monitors[idx], ev, State))
       ELSE \E parseOK \in BOOLEAN, runResult \in RunResults :
              Invoke(idx, MonitorContext(Monitors[idx], ev, State),
                     RunHandler(Monitors[idx],
                                MonitorContext(Monitors[idx], ev, State),
                                parseOK, runResult))

\* The loop has ended (lines 109-114): the defer is registered, the function
\* returns, the deferred function runs and recover() yields nil, so
\* bot.ErrorHandler is not called.
Return ==
  /\ pc = "loop"
  /\ idx > Len(Monitors)
  /\ pc' = "idle"
  /\ UNCHANGED << tasks, config, shared, ev, idx, outcome, calls, errors, command >>

NoEvent == [ Content |-> <<>>, AuthorID |-> "user", AuthorBot |-> FALSE,
             WebhookID |-> "", GuildID |-> "", ChannelID |-> "c" ]

Init ==
  /\ Monitors = <<>>
  /\ toggles = 0
  /\ Prefix = << "!" >>
  /\ Commands = DefaultCommands
  /\ Lang = "en-US"
  /\ CommandTyping = FALSE
  /\ State \in SessionStates
  /\ now = 0
  /\ cooldowns = << >>
  /\ CommandsRan = 0
  /\ pc = "setup"
  /\ ev = NoEvent
  /\ idx = 1
  /\ outcome = <<>>
  /\ calls = <<>>
  /\ errors = <<>>
  /\ replies = <<>>
  /\ typing = 0
  /\ cooldownChecks = 0
  /\ ran = <<>>
  /\ tok = NoTok
  /\ tasks = << >>

Next ==
  \/ \E h \in Handlers : AddMonitor(h, h)
  \/ \E i \in 1..MaxMonitors : AllowBots(i)
  \/ \E i \in 1..MaxMonitors : AllowWebhooks(i)
  \/ \E i \in 1..MaxMonitors : AllowSelf(i)
  \/ \E i \in 1..MaxMonitors, b \in BOOLEAN : SetGuildOnly(i, b)
  \/ \E i \in 1..MaxMonitors, b \in BOOLEAN : SetEnabled(i, b)
  \/ \E m \in Events(DispatchTexts) : Receive(m)
  \/ Visit
  \/ Return

Spec == Init /\ [][Next]_vars

(***************************************************************************)
(* The message specification: the listener is called with one message,     *)
(* drawn from MsgTexts, and the built-in command monitor is the only       *)
(* monitor registered.                                                     *)
(***************************************************************************)
InitMsg ==
  /\ Monitors = << NewMonitor("commandHandler", "CommandHandlerMonitor") >>
  /\ toggles = 0
  /\ Prefix \in Prefixes
  /\ Commands = DefaultCommands
  /\ Lang = "en-US"
  /\ CommandTyping = FALSE
  /\ State = [Guilds |-> {"g"}, Channels |-> {"c"}]
  /\ now = 0
  /\ cooldowns = << >>
  /\ CommandsRan = 0
  /\ pc = "loop"
  /\ ev \in [ Content : MsgTexts, AuthorID : {"user"}, AuthorBot : {FALSE},
               WebhookID : {""}, GuildID : {""}, ChannelID : {"c"} ]
  /\ idx = 1
  /\ outcome = <<>>
  /\ calls = <<>>
  /\ errors = <<>>
  /\ replies = <<>>
  /\ typing = 0
  /\ cooldownChecks = 0
  /\ ran = <<>>
  /\ tok = NoTok
  /\ tasks = << >>

NextMsg ==
  \/ Visit
  \/ Return

SpecMsg == InitMsg /\ [][NextMsg]_vars

(***************************************************************************)
(* The quoting specification: as the message specification, with no prefix *)
(* and with texts put together from a flag stem, =, a, the two ASCII       *)
(* quotes and the backslash.                                               *)
(***************************************************************************)
MaxQuotePieces == 5  \* pieces a quoting text is put together from

QuotePieces == { << "-", "-", "a", "a" >>, << "=" >>, << "a" >>,
                 << "\"" >>, << "'" >>, << "\\" >> }

RECURSIVE QuoteTextsUpTo(_)
QuoteTextsUpTo(n) ==
  IF n = 0 THEN { <<>> }
  ELSE LET shorter == QuoteTextsUpTo(n - 1)
       IN  shorter \cup { t \o p : t \in shorter, p \in QuotePieces }

QuoteTexts == QuoteTextsUpTo(MaxQuotePieces)

InitQuote ==
  /\ Monitors = << NewMonitor("commandHandler", "CommandHandlerMonitor") >>
  /\ toggles = 0
  /\ Prefix = << >>
  /\ Commands = DefaultCommands
  /\ Lang = "en-US"
  /\ CommandTyping = FALSE
  /\ State = [Guilds |-> {"g"}, Channels |-> {"c"}]
  /\ now = 0
  /\ cooldowns = << >>
  /\ CommandsRan = 0
  /\ pc = "loop"
  /\ ev \in [ Content : QuoteTexts, AuthorID : {"user"}, AuthorBot : {FALSE},
               WebhookID : {""}, GuildID : {""}, ChannelID : {"c"} ]
  /\ idx = 1
  /\ outcome = <<>>
  /\ calls = <<>>
  /\ errors = <<>>
  /\ replies = <<>>
  /\ typing = 0
  /\ cooldownChecks = 0
  /\ ran = <<>>
  /\ tok = NoTok
  /\ tasks = << >>

NextQuote ==
  \/ Visit
  \/ Return

SpecQuote == InitQuote /\ [][NextQuote]_vars

(***************************************************************************)
(* The command specification: the built-in command monitor is the only     *)
(* monitor, the registry, the language and the typing setting are drawn at *)
(* start, and messages from two users arrive one after the other while the *)
(* clock advances.                                                         *)
(***************************************************************************)
MaxNow == 3          \* ticks of the clock
MaxCmdRan == 3       \* commands executed before no more events are fed

\* the cooldown durations commands are registered with
Cooldowns == {0, 2}

\* command "a" with every combination of the validation fields and a
\* cooldown, and command "aa", enabled, with a cooldown of its own
CmdRegistries ==
  { [n \in {TheCommand, DisabledCommand} |->
       IF n = TheCommand
         THEN [Name |-> n, Enabled |-> f.Enabled, OwnerOnly |-> f.OwnerOnly,
               GuildOnly |-> f.GuildOnly, Cooldown |-> f.Cooldown, found |-> TRUE]
         ELSE [Name |-> n, Enabled |-> TRUE, OwnerOnly |-> FALSE,
               GuildOnly |-> FALSE, Cooldown |-> 1, found |-> TRUE]] :
    f \in [Enabled : BOOLEAN, OwnerOnly : BOOLEAN, GuildOnly : BOOLEAN,
           Cooldown : Cooldowns] }

\* what bot.Language resolves to: a registered key, or one that is not
LanguageKeys == {"en-US", "xx"}

\* "!a", "!aa" and "!a --aa a"
CmdTexts == { << "!", "a" >>, << "!", "a", "a" >>,
              << "!", "a", " ", "-", "-", "a", "a", " ", "a" >> }

CmdEvents ==
  [ Content : CmdTexts, AuthorID : {"user", OwnerID}, AuthorBot : {FALSE},
    WebhookID : {""}, GuildID : {"", "g"}, ChannelID : {"c"} ]

InitCmd ==
  /\ Monitors = << NewMonitor("commandHandler", "CommandHandlerMonitor") >>
  /\ toggles = 0
  /\ Prefix = << "!" >>
  /\ Commands \in CmdRegistries
  /\ Lang \in LanguageKeys
  /\ CommandTyping \in BOOLEAN
  /\ State = [Guilds |-> {"g"}, Channels |-> {"c"}]
  /\ now = 0
  /\ cooldowns = << >>
  /\ CommandsRan = 0
  /\ pc = "idle"
  /\ ev = NoEvent
  /\ idx = 1
  /\ outcome = <<>>
  /\ calls = <<>>
  /\ errors = <<>>
  /\ replies = <<>>
  /\ typing = 0
  /\ cooldownChecks = 0
  /\ ran = <<>>
  /\ tok = NoTok
  /\ tasks = << >>

\* discordgo calls the listener with the next message
ReceiveCmd(m) ==
  /\ pc = "idle"
  /\ CommandsRan < MaxCmdRan
  /\ pc' = "loop"
  /\ ev' = m
  /\ idx' = 1
  /\ outcome' = <<>>
  /\ calls' = <<>>
  /\ replies' = <<>>
  /\ typing' = 0
  /\ cooldownChecks' = 0
  /\ ran' = <<>>
  /\ tok' = NoTok
  /\ UNCHANGED << tasks, config, shared, errors >>

\* time passes between two messages
Tick ==
  /\ pc = "idle"
  /\ now < MaxNow
  /\ now' = now + 1
  /\ UNCHANGED << tasks, config, cooldowns, CommandsRan, listener, command >>

NextCmd ==
  \/ \E m \in CmdEvents : ReceiveCmd(m)
  \/ Tick
  \/ Visit
  \/ Return

SpecCmd == InitCmd /\ [][NextCmd]_vars

(***************************************************************************)
(* The concurrent specification.  discordgo launches the listener on a     *)
(* goroutine of its own for every event (comment of line 98), so several   *)
(* calls of the command monitor are under way at once.  Each goroutine     *)
(* runs the listener up to line 220, then bot.CommandsRan++ (line 222),    *)
(* which on a plain int field is a read followed by a write with no        *)
(* synchronisation, then cmd.Run (line 223).  The command monitor is the   *)
(* only monitor registered.                                                *)
(***************************************************************************)
MaxTasks == 3        \* events delivered, each on its own goroutine

\* a goroutine that got as far as e says: where it stands, the value it read
\* from bot.CommandsRan, and the context it will hand to cmd.Run
NewTask(e) ==
  [ pc |-> IF e.at = "run" THEN "load" ELSE "done", reg |-> 0, cctx |-> e.ran ]

\* the goroutine's listener call skipped the monitor
SkippedTask == [ pc |-> "done", reg |-> 0, cctx |-> <<>> ]

\* lines 66-220 on a new goroutine whose handler call did e
Enter(ctx, e) ==
  /\ tasks' = Append(tasks, NewTask(e))
  /\ calls' = Append(calls, [monitor |-> 1, guild |-> ctx.Guild, at |-> e.at,
                             panic |-> e.panic])
  /\ replies' = replies \o e.replies
  /\ typing' = typing + e.typing
  /\ cooldownChecks' = cooldownChecks + e.cooldownChecks
  /\ cooldowns' = e.cooldowns
  /\ pc' = IF e.panic THEN "crashed" ELSE pc
  /\ UNCHANGED << config, now, CommandsRan, ev, idx, outcome, errors, ran, tok >>

\* discordgo delivers m on a new goroutine
Spawn(m) ==
  /\ pc = "concurrent"
  /\ Len(tasks) < MaxTasks
  /\ IF Gate(Monitors[1], m, State) # "run"
       THEN /\ tasks' = Append(tasks, SkippedTask)
            /\ UNCHANGED << config, shared, listener, command >>
       ELSE \E parseOK \in BOOLEAN :
              Enter(MonitorContext(Monitors[1], m, State),
                    RunHandler(Monitors[1], MonitorContext(Monitors[1], m, State),
                               parseOK, "done"))

\* line 222, first half: the goroutine reads bot.CommandsRan
Load(g) ==
  /\ pc = "concurrent"
  /\ g \in DOMAIN tasks
  /\ tasks[g].pc = "load"
  /\ tasks' = [tasks EXCEPT ![g].pc = "store", ![g].reg = CommandsRan]
  /\ UNCHANGED << config, shared, listener, command >>

\* line 222, second half: the goroutine writes the value it read, plus one
Store(g) ==
  /\ pc = "concurrent"
  /\ g \in DOMAIN tasks
  /\ tasks[g].pc = "store"
  /\ CommandsRan' = tasks[g].reg + 1
  /\ tasks' = [tasks EXCEPT ![g].pc = "run"]
  /\ UNCHANGED << config, now, cooldowns, listener, command >>

\* line 223: cmd.Run(cctx); a panic of the handler ends the program
RunCommand(g, runResult) ==
  /\ pc = "concurrent"
  /\ g \in DOMAIN tasks
  /\ tasks[g].pc = "run"
  /\ ran' = ran \o tasks[g].cctx
  /\ tasks' = [tasks EXCEPT ![g].pc = "done"]
  /\ pc' = IF runResult = "panic" THEN "crashed" ELSE pc
  /\ UNCHANGED << config, shared, ev, idx, outcome, calls, errors,
                  replies, typing, cooldownChecks, tok >>

InitConc ==
  /\ Monitors = << NewMonitor("commandHandler", "CommandHandlerMonitor") >>
  /\ toggles = 0
  /\ Prefix = << "!" >>
  /\ Commands = DefaultCommands
  /\ Lang = "en-US"
  /\ CommandTyping = FALSE
  /\ State = [Guilds |-> {"g"}, Channels |-> {"c"}]
  /\ now = 0
  /\ cooldowns = << >>
  /\ CommandsRan = 0
  /\ pc = "concurrent"
  /\ ev = NoEvent
  /\ idx = 1
  /\ outcome = <<>>
  /\ calls = <<>>
  /\ errors = <<>>
  /\ replies = <<>>
  /\ typing = 0
  /\ cooldownChecks = 0
  /\ ran = <<>>
  /\ tok = NoTok
  /\ tasks = << >>

NextConc ==
  \/ \E m \in Events(DispatchTexts) : Spawn(m)
  \/ \E g \in 1..MaxTasks : Load(g)
  \/ \E g \in 1..MaxTasks : Store(g)
  \/ \E g \in 1..MaxTasks, r \in RunResults : RunCommand(g, r)

SpecConc == InitConc /\ [][NextConc]_vars

(***************************************************************************)
(* Properties of the dispatch listener (specification Spec).               *)
(***************************************************************************)
\* the listener call for ev has ended, by returning or by an unrecovered panic
CallEnded == pc \in {"idle", "crashed"}

\* the monitors the loop has visited so far in this listener call
Visited == 1..Len(outcome)

\* the invocations of the handler of monitor i in this listener call
CallsOf(i) == { k \in DOMAIN calls : calls[k].monitor = i }

Faulted(i) == \E k \in CallsOf(i) : calls[k].panic

\* the author gates of the spec: self, bot, webhook
PassesAuthorGates(mon, m) ==
  /\ ~(m.AuthorID = SelfID /\ mon.IgnoreSelf)
  /\ ~(m.AuthorBot /\ mon.IgnoreBots)
  /\ ~(m.WebhookID # "" /\ mon.IgnoreWebhooks)

GuildResolves(m, st) == m.GuildID # "" /\ m.GuildID \in st.Guilds

ChannelResolves(m, st) == m.ChannelID \in st.Channels

\* the monitor passes every gate of the code for the event
Eligible(mon, m, st) ==
  /\ mon.Enabled
  /\ m.GuildID = "" \/ GuildResolves(m, st)
  /\ ~(mon.GuildOnly /\ m.GuildID = "")
  /\ PassesAuthorGates(mon, m)
  /\ ChannelResolves(m, st)

\* C1 (as claimed): failure isolation - when the listener call has ended, for
\* monitors A before B that both pass their gates, if A's handler raised a
\* fault then B's handler was still invoked with the event.
C1_FailureIsolation ==
  CallEnded =>
    \A a, b \in DOMAIN Monitors :
      ( /\ a < b
        /\ Eligible(Monitors[a], ev, State)
        /\ Eligible(Monitors[b], ev, State)
        /\ Faulted(a) )
      => CallsOf(b) # {}

\* C2 (as claimed): a fault raised by a monitor handler is caught inside the
\* listener and handed to bot.ErrorHandler exactly once; it never leaves the
\* listener to end the event-processing goroutine.
C2_FaultCaughtAndReported ==
  \A i \in DOMAIN Monitors :
    Faulted(i) => /\ pc # "crashed"
                  /\ Len(errors) = Cardinality({ k \in DOMAIN calls : calls[k].panic })

\* C3: one listener call visits the monitors once each, in registration
\* order, with no short-circuit: when the call has ended, every monitor that
\* no faulting handler precedes was invoked exactly once if it is enabled and
\* passes its gates and not at all otherwise - whether the monitors before it
\* were skipped, returned early or sent a reply - and the invocations are in
\* registration order, none repeated.
C3_EachEligibleMonitorOnce ==
  CallEnded =>
    /\ \A j \in DOMAIN Monitors :
         (\A i \in 1..(j - 1) : ~Faulted(i))
         => Cardinality(CallsOf(j)) =
              IF Eligible(Monitors[j], ev, State) THEN 1 ELSE 0
    /\ \A k \in DOMAIN calls :
         k > 1 => calls[k - 1].monitor < calls[k].monitor

\* C3 witness: a returned listener call in which the command monitor came
\* first and sent the COMMAND_DISABLED reply, and the monitor after it ran.
C3_Witness ==
  /\ pc = "idle"
  /\ Len(calls) = 2
  /\ calls[1].at = "disabled"
  /\ Len(replies) = 1
  /\ calls[2].monitor = 2

\* C4 (as claimed): with a guild id whose lookup fails, the guild is none and
\* a visited monitor that is enabled, not guildOnly, passes the author gates
\* and has a resolvable channel is invoked with Guild = none.
C4_LookupFailureMeansNoGuild ==
  \A i \in Visited :
    ( /\ ev.GuildID # ""
      /\ ~GuildResolves(ev, State)
      /\ Monitors[i].Enabled
      /\ ~Monitors[i].GuildOnly
      /\ PassesAuthorGates(Monitors[i], ev)
      /\ ChannelResolves(ev, State) )
    => \E k \in CallsOf(i) : calls[k].guild = NoGuild

\* C4 (amended): with a guild id whose lookup fails, a visited monitor is
\* skipped whether or not it is guildOnly; a handler sees Guild = none only
\* for an event without a guild id, and the looked-up guild otherwise.
C4_LookupFailureSkips ==
  /\ \A i \in Visited :
       (ev.GuildID # "" /\ ~GuildResolves(ev, State)) => CallsOf(i) = {}
  /\ \A k \in DOMAIN calls :
       calls[k].guild = (IF ev.GuildID = "" THEN NoGuild ELSE ev.GuildID)

\* C4 witness: the guild lookup failed for a visited monitor that is enabled,
\* not guildOnly and passes every other gate, and it was not invoked.
C4_Witness ==
  \E i \in Visited :
    /\ ev.GuildID # ""
    /\ ~GuildResolves(ev, State)
    /\ Monitors[i].Enabled
    /\ ~Monitors[i].GuildOnly
    /\ PassesAuthorGates(Monitors[i], ev)
    /\ ChannelResolves(ev, State)
    /\ CallsOf(i) = {}
    /\ pc = "idle"

\* C5: an enabled guildOnly monitor is never invoked for a DM event (empty
\* guild id), and when the loop visits it for a guild event whose guild and
\* channel resolve and whose author passes the self/bot/webhook gates, it is
\* invoked.
C5_GuildOnlyGate ==
  /\ \A k \in DOMAIN calls :
       Monitors[calls[k].monitor].GuildOnly => ev.GuildID # ""
  /\ \A i \in Visited :
       ( /\ Monitors[i].Enabled
         /\ Monitors[i].GuildOnly
         /\ GuildResolves(ev, State)
         /\ ChannelResolves(ev, State)
         /\ PassesAuthorGates(Monitors[i], ev) )
       => CallsOf(i) # {}

\* C5 witness: a listener call for a DM event has returned, and it skipped an
\* enabled guildOnly monitor that passes every other gate.
C5_Witness ==
  \E i \in Visited :
    /\ pc = "idle"
    /\ Monitors[i].Enabled
    /\ Monitors[i].GuildOnly
    /\ ev.GuildID = ""
    /\ PassesAuthorGates(Monitors[i], ev)
    /\ ChannelResolves(ev, State)
    /\ CallsOf(i) = {}

\* what a visited monitor does with the event, by its three ignore flags
IgnoreFlagsDecide ==
  \A i \in Visited :
    LET mon == Monitors[i] IN
    /\ (mon.IgnoreBots /\ ev.AuthorBot) => CallsOf(i) = {}
    /\ (mon.IgnoreWebhooks /\ ev.WebhookID # "") => CallsOf(i) = {}
    /\ (mon.IgnoreSelf /\ ev.AuthorID = SelfID) => CallsOf(i) = {}
    /\ Eligible(mon, ev, State) => CallsOf(i) # {}

\* a monitor is added with all three ignore flags set
AddedWithDefaults ==
  Len(Monitors') = Len(Monitors) + 1 =>
    LET mon == Monitors'[Len(Monitors')]
    IN  mon.IgnoreBots /\ mon.IgnoreWebhooks /\ mon.IgnoreSelf

\* an Allow* call clears its own flag and leaves the rest of the monitor alone
AllowLiftsOwnGate ==
  \A i \in DOMAIN Monitors :
    /\ AllowBots(i) => Monitors'[i] = [Monitors[i] EXCEPT !.IgnoreBots = FALSE]
    /\ AllowWebhooks(i) => Monitors'[i] = [Monitors[i] EXCEPT !.IgnoreWebhooks = FALSE]
    /\ AllowSelf(i) => Monitors'[i] = [Monitors[i] EXCEPT !.IgnoreSelf = FALSE]

\* C6: a monitor from NewMonitor has the three ignore flags set, and then a
\* visited monitor is not invoked for a bot-authored event, a webhook event
\* or the bot's own event; AllowBots / AllowWebhooks / AllowSelf clear only
\* their own flag, and a visited monitor whose flag is cleared is invoked for
\* that kind of event when every other gate passes.
C6_IgnoreFlags ==
  /\ []IgnoreFlagsDecide
  /\ [][AddedWithDefaults /\ AllowLiftsOwnGate]_vars

\* C6 witness: of two visited monitors, the one with default flags was
\* skipped for a bot-authored event and the one AllowBots was called on ran.
C6_Witness ==
  \E i, j \in Visited :
    /\ ev.AuthorBot
    /\ Monitors[i].IgnoreBots /\ Monitors[i].Enabled
    /\ CallsOf(i) = {}
    /\ ~Monitors[j].IgnoreBots /\ Monitors[j].IgnoreWebhooks /\ Monitors[j].IgnoreSelf
    /\ CallsOf(j) # {}

(***************************************************************************)
(* Properties of the command monitor and its flag extraction               *)
(* (specification SpecMsg).                                                *)
(***************************************************************************)
\* t starts with p, character by character
StartsWith(t, p) == Len(p) <= Len(t) /\ \A i \in 1..Len(p) : t[i] = p[i]

\* sub occurs in t
Contains(t, sub) ==
  \E i \in 0..(Len(t) - Len(sub)) : SubSeq(t, i + 1, i + Len(sub)) = sub

\* the step is a call of the command monitor by the listener
CommandMonitorCalled ==
  /\ pc = "loop"
  /\ idx <= Len(Monitors)
  /\ Monitors[idx].Run = "CommandHandlerMonitor"
  /\ Len(calls') = Len(calls) + 1

\* C7: when the text does not start with the resolved prefix, a call of the
\* command monitor sends no reply and no typing signal, consults no cooldown,
\* leaves the executed-command counter unchanged, invokes no command
\* handler, and returns to the loop.
C7_NoPrefixNoCommand ==
  [][ (CommandMonitorCalled /\ ~StartsWith(ev.Content, Prefix))
      => /\ replies' = replies
         /\ typing' = typing
         /\ cooldownChecks' = cooldownChecks
         /\ cooldowns' = cooldowns
         /\ CommandsRan' = CommandsRan
         /\ ran' = ran
         /\ pc' = "loop" ]_vars

\* C7 witness: the command monitor was called and returned for a text that
\* does not start with the prefix although a command name stands where the
\* prefix would end.
C7_Witness ==
  /\ pc = "idle"
  /\ Len(calls) = 1
  /\ ~StartsWith(ev.Content, Prefix)
  /\ Len(ev.Content) > Len(Prefix)
  /\ SubSeq(ev.Content, Len(Prefix) + 1, Len(ev.Content)) = TheCommand

\* t is p alone, or p followed only by flag tokens and spaces
NoCommandToken(t, p) ==
  /\ StartsWith(t, p)
  /\ \A c \in Range(ReplaceFlags(SubSeq(t, Len(p) + 1, Len(t))).text) : c = " "

\* C8 (as claimed): for a text that starts with the prefix and holds no
\* command token, the command monitor raises no fault, invokes no command
\* handler and sends no reply.
C8_NoTokenAbortsWithoutFault ==
  \A k \in DOMAIN calls :
    NoCommandToken(ev.Content, Prefix)
    => ~calls[k].panic /\ ran = <<>> /\ replies = <<>>

\* the command monitor got past the prefix check: flags and content exist
Extracted == tok.at \notin {"none", "noPrefix"}

\* a flag name of the spec's grammar: word characters and hyphens, the first
\* a word character
WellFormedName(n) ==
  n # <<>> /\ IsWord(n[1]) /\ \A i \in DOMAIN n : IsNameChar(n[i])

\* end (exclusive) of the run of word characters from i on
RECURSIVE WordRunEnd(_, _)
WordRunEnd(t, i) ==
  IF i <= Len(t) /\ IsWord(t[i]) THEN WordRunEnd(t, i + 1) ELSE i

\* position p of t starts a token of its own: nothing before it that a flag
\* name or value could run into
LeftFree(t, p) == p = 1 \/ (~IsNameChar(t[p - 1]) /\ t[p - 1] # "=")

\* -- stands at position p of t
DashesAt(t, p) == p + 1 <= Len(t) /\ t[p] = "-" /\ t[p + 1] = "-"

\* no flag named n starts in t from position q on
NoLaterFlag(t, q, n) == ~Contains(SubSeq(t, q, Len(t)), << "-", "-" >> \o n)

\* For every --name=value that stands on its own in the text, with a name of
\* at least minLen characters and a plain word value, and no later flag of
\* that name: flags[name] = value, and --name=value occurs neither in the
\* cleaned content nor in an argument.
RoundTrip(minLen) ==
  LET t == ev.Content IN
  Extracted =>
    \A p \in 1..Len(t), e \in 1..Len(t) :
      LET n == SubSeq(t, p + 2, e - 1)
          q == WordRunEnd(t, e + 1)
          v == SubSeq(t, e + 1, q - 1)
          token == << "-", "-" >> \o n \o << "=" >> \o v
      IN  ( /\ p + 2 < e
            /\ DashesAt(t, p)
            /\ LeftFree(t, p)
            /\ t[e] = "="
            /\ Len(n) >= minLen
            /\ WellFormedName(n)
            /\ v # <<>>
            /\ (q > Len(t) \/ ~IsNameChar(t[q]))
            /\ NoLaterFlag(t, q, n) )
          => /\ n \in DOMAIN tok.flags
             /\ tok.flags[n] = v
             /\ ~Contains(tok.content, token)
             /\ \A a \in Range(tok.args) : ~Contains(a, token)

\* C9 (as claimed): flag round-trip for every well-formed flag name,
\* one-character names included.
C9_RoundTripAnyName == RoundTrip(1)

\* C9 (amended): flag round-trip for every flag name of at least two
\* characters.
C9_RoundTripTwoCharName == RoundTrip(2)

\* C9 witness: the command monitor extracted the flags of a text that holds
\* --aa=a as a token of its own, and flags[aa] = a.
C9_Witness ==
  /\ Extracted
  /\ \E p \in 1..Len(ev.Content) :
       /\ LeftFree(ev.Content, p)
       /\ SubSeq(ev.Content, p, Len(ev.Content)) = << "-", "-", "a", "a", "=", "a" >>
  /\ << "a", "a" >> \in DOMAIN tok.flags
  /\ tok.flags[<< "a", "a" >>] = << "a" >>

\* For every --name that stands on its own in the text without a value, with
\* a name of at least minLen characters (and, when lastOnly, no later flag of
\* that name): flags[name] = name, and --name does not occur in the cleaned
\* content.
BooleanFlag(minLen, lastOnly) ==
  LET t == ev.Content IN
  Extracted =>
    \A p \in 1..Len(t) :
      LET r == RunEnd(t, p + 2)
          n == SubSeq(t, p + 2, r - 1)
      IN  ( /\ DashesAt(t, p)
            /\ LeftFree(t, p)
            /\ Len(n) >= minLen
            /\ WellFormedName(n)
            /\ \/ r > Len(t)
               \/ t[r] # "="
               \/ r + 1 > Len(t)
               \/ ~IsNameChar(t[r + 1])
            /\ lastOnly => NoLaterFlag(t, r, n) )
          => /\ n \in DOMAIN tok.flags
             /\ tok.flags[n] = n
             /\ ~Contains(tok.content, << "-", "-" >> \o n)

\* C10 (as claimed): every flag token --name without a value gives
\* flags[name] = name and is removed from the cleaned text.
C10_BooleanFlagAnyToken == BooleanFlag(1, FALSE)

\* C10 (amended): a flag token --name without a value, whose name has at
\* least two characters and which no later flag of the same name follows,
\* gives flags[name] = name and is removed from the cleaned text.
C10_BooleanFlagLastOfName == BooleanFlag(2, TRUE)

\* C10 witness: the command monitor extracted the flags of a text that ends
\* in the token --aa, and flags[aa] = aa.
C10_Witness ==
  /\ Extracted
  /\ \E p \in 1..Len(ev.Content) :
       /\ LeftFree(ev.Content, p)
       /\ SubSeq(ev.Content, p, Len(ev.Content)) = << "-", "-", "a", "a" >>
  /\ << "a", "a" >> \in DOMAIN tok.flags
  /\ tok.flags[<< "a", "a" >>] = << "a", "a" >>

\* the step is one iteration of the listener's loop
VisitStep ==
  /\ pc = "loop"
  /\ idx <= Len(Monitors)
  /\ Len(outcome') = Len(outcome) + 1

\* C17: when the platform channel lookup for the event fails, the monitor is
\* skipped for that event: its handler is not invoked, nothing is reported
\* to bot.ErrorHandler, and the loop continues with the next monitor; a
\* monitor that passes every other gate is skipped by the channel lookup.
C17_ChannelLookupFailureSkips ==
  [][ (VisitStep /\ ev.ChannelID \notin State.Channels)
      => /\ calls' = calls
         /\ errors' = errors
         /\ replies' = replies /\ ran' = ran
         /\ pc' = "loop"
         /\ idx' = idx + 1
         /\ ( /\ Monitors[idx].Enabled
              /\ ev.GuildID = "" \/ GuildResolves(ev, State)
              /\ ~(Monitors[idx].GuildOnly /\ ev.GuildID = "")
              /\ PassesAuthorGates(Monitors[idx], ev) )
            => outcome'[Len(outcome')] = "channelLookup" ]_vars

\* C17 witness: the listener call for an ordinary user's message in an
\* unknown channel has returned; both registered monitors, enabled and
\* passing every other gate, were skipped by the channel lookup, no handler
\* ran and nothing was reported.
C17_Witness ==
  /\ pc = "idle"
  /\ Len(Monitors) = 2
  /\ ev.ChannelID \notin State.Channels
  /\ outcome = << "channelLookup", "channelLookup" >>
  /\ calls = <<>>
  /\ errors = <<>>

(***************************************************************************)
(* Properties of the command dispatch (specification SpecCmd).             *)
(***************************************************************************)
\* the registered command the text of ev addresses: every text of CmdTexts
\* is the prefix followed by the name of a registered command
Addressed ==
  Commands[IF ev.Content = << "!", "a", "a" >> THEN DisabledCommand ELSE TheCommand]

\* the step is the dispatch of ev to the command monitor, the language
\* resolver answering a registered key
DispatchStep == CommandMonitorCalled /\ Lang \in Languages

\* after the step: exactly the reply key was sent, and nothing of what lies
\* behind the validations happened (the return point is in front of
\* cctx.ParseArgs, no typing signal, no cooldown check, no increment, no run)
RefusedWith(key, at) ==
  /\ replies' = << [key |-> key, arg |-> 0] >>
  /\ calls'[Len(calls')].at = at
  /\ typing' = 0
  /\ cooldownChecks' = 0
  /\ cooldowns' = cooldowns
  /\ CommandsRan' = CommandsRan
  /\ ran' = <<>>

\* C11: the validation gates run in the order disabled, owner-only,
\* guild-only and abort on the first failure: exactly one reply is sent,
\* COMMAND_DISABLED if the command is disabled, otherwise COMMAND_OWNER_ONLY
\* if it is ownerOnly and the author is not the owner, otherwise
\* COMMAND_GUILD_ONLY if it is guildOnly and the event has no guild id; and
\* then no argument parsing, typing signal, cooldown check, counter increment
\* or command handler happens.
C11_ValidationOrder ==
  [][ DispatchStep
      => IF ~Addressed.Enabled
           THEN RefusedWith("COMMAND_DISABLED", "disabled")
         ELSE IF Addressed.OwnerOnly /\ ev.AuthorID # OwnerID
           THEN RefusedWith("COMMAND_OWNER_ONLY", "ownerOnly")
         ELSE IF Addressed.GuildOnly /\ ev.GuildID = ""
           THEN RefusedWith("COMMAND_GUILD_ONLY", "guildOnly")
         ELSE \A k \in DOMAIN replies' :
                replies'[k].key \notin { "COMMAND_DISABLED", "COMMAND_OWNER_ONLY",
                                         "COMMAND_GUILD_ONLY" } ]_vars

\* C11 witness: a DM from a user who is not the owner addressed a command
\* that is disabled, ownerOnly and guildOnly at once, with typing switched
\* on, and was answered with COMMAND_DISABLED alone.
C11_Witness ==
  /\ pc = "idle"
  /\ Len(calls) = 1
  /\ Lang \in Languages
  /\ CommandTyping
  /\ ~Addressed.Enabled /\ Addressed.OwnerOnly /\ Addressed.GuildOnly
  /\ ev.AuthorID # OwnerID /\ ev.GuildID = ""
  /\ replies = << [key |-> "COMMAND_DISABLED", arg |-> 0] >>

\* the cooldown table key of the dispatch of ev
PairOf(m) == << m.AuthorID, Addressed.Name >>

\* the tracker holds an expiry for the pair of ev that now lies before
OnCooldown ==
  /\ Addressed.Cooldown > 0
  /\ PairOf(ev) \in DOMAIN cooldowns
  /\ now < cooldowns[PairOf(ev)]

\* the step is a dispatch of ev that consulted the cooldown tracker
CooldownConsulted == DispatchStep /\ cooldownChecks' = cooldownChecks + 1

\* C12: when the cooldown check reports not eligible, the command monitor
\* sends exactly one COMMAND_COOLDOWN reply carrying the remaining wait and
\* aborts: the executed-command counter is unchanged and the command handler
\* is not invoked.
C12_CooldownRefusal ==
  [][ (CooldownConsulted /\ OnCooldown)
      => /\ replies' = << [key |-> "COMMAND_COOLDOWN",
                           arg |-> cooldowns[PairOf(ev)] - now] >>
         /\ CommandsRan' = CommandsRan
         /\ ran' = <<>>
         /\ pc' = "loop" ]_vars

\* C12 witness: a command with cooldown 2 ran, the clock advanced by one, and
\* the same user's next invocation was answered with COMMAND_COOLDOWN and a
\* remaining wait of 1.
C12_Witness ==
  /\ pc = "idle"
  /\ CommandsRan = 1
  /\ now = 1
  /\ Addressed.Cooldown = 2
  /\ cooldownChecks = 1
  /\ ran = <<>>
  /\ replies = << [key |-> "COMMAND_COOLDOWN", arg |-> 1] >>

\* after the step: the invocation was allowed (the handler was invoked, no
\* reply refused it)
Allowed == Len(ran') = 1 /\ replies' = <<>>

\* after the step: the invocation was disallowed with retryAfter = wait
Disallowed(wait) ==
  /\ ran' = <<>>
  /\ replies' = << [key |-> "COMMAND_COOLDOWN", arg |-> wait] >>

\* after the step: the pair's expiry is t
ExpiryIs(pair, t) == pair \in DOMAIN cooldowns' /\ cooldowns'[pair] = t

\* the step left every pair but this one as it was
OthersUntouched(pair) ==
  /\ DOMAIN cooldowns' \ {pair} = DOMAIN cooldowns \ {pair}
  /\ \A k \in DOMAIN cooldowns \ {pair} : cooldowns'[k] = cooldowns[k]

\* C13: cooldown sequence for one (user, command) pair with duration d > 0:
\* the first invocation is allowed and records expiry = now + d; a later
\* invocation strictly before the expiry is disallowed with retryAfter equal
\* to the remaining time and does not move the expiry; an invocation at or
\* after the expiry is allowed and resets the expiry; with d = 0 every
\* invocation is allowed; an invocation for another user or another command
\* never affects the pair, and no other step changes the table.
C13_CooldownSequence ==
  [][ IF CooldownConsulted
        THEN /\ OthersUntouched(PairOf(ev))
             /\ IF Addressed.Cooldown = 0
                  THEN Allowed /\ cooldowns' = cooldowns
                ELSE IF PairOf(ev) \notin DOMAIN cooldowns
                  THEN Allowed /\ ExpiryIs(PairOf(ev), now + Addressed.Cooldown)
                ELSE IF now < cooldowns[PairOf(ev)]
                  THEN /\ Disallowed(cooldowns[PairOf(ev)] - now)
                       /\ ExpiryIs(PairOf(ev), cooldowns[PairOf(ev)])
                ELSE Allowed /\ ExpiryIs(PairOf(ev), now + Addressed.Cooldown)
        ELSE cooldowns' = cooldowns ]_vars

\* C13 witness: with duration 2, the owner and the user both invoked the
\* command at time 0; at time 2 the user's invocation was allowed again and
\* moved the user's expiry to 4, while the owner's expiry still is 2.
C13_Witness ==
  /\ pc = "idle"
  /\ now = 2
  /\ ev.AuthorID = "user"
  /\ Addressed.Cooldown = 2
  /\ Len(ran) = 1
  /\ << "user", Addressed.Name >> \in DOMAIN cooldowns
  /\ << OwnerID, Addressed.Name >> \in DOMAIN cooldowns
  /\ cooldowns[<< "user", Addressed.Name >>] = 4
  /\ cooldowns[<< OwnerID, Addressed.Name >>] = 2

\* C16: when the language resolver returns a key that is not registered in
\* bot.Languages, the dispatch is aborted silently: no reply, no typing
\* signal, the cooldown is not consulted, the counter is unchanged, the
\* command handler is not invoked, and no fault is raised or reported to
\* bot.ErrorHandler.
C16_UnregisteredLanguageAborts ==
  [][ (CommandMonitorCalled /\ Lang \notin Languages)
      => /\ replies' = replies
         /\ typing' = typing
         /\ cooldownChecks' = cooldownChecks
         /\ cooldowns' = cooldowns
         /\ CommandsRan' = CommandsRan
         /\ ran' = ran
         /\ ~calls'[Len(calls')].panic
         /\ errors' = errors
         /\ pc' = "loop" ]_vars

\* C16 witness: with the unregistered key "xx", a guild message of the owner
\* addressing an enabled command was dispatched and the call returned with
\* nothing sent, checked, counted or run.
C16_Witness ==
  /\ pc = "idle"
  /\ Lang = "xx"
  /\ Len(calls) = 1
  /\ calls[1].at = "noLanguage"
  /\ Addressed.Enabled
  /\ ev.AuthorID = OwnerID /\ ev.GuildID = "g"
  /\ replies = <<>> /\ ran = <<>> /\ cooldownChecks = 0 /\ errors = <<>>

(***************************************************************************)
(* Properties of a complete dispatch and of the flag tokens of a message   *)
(* (specification SpecMsg).                                                *)
(***************************************************************************)
\* the flag tokens of a text: the matches of flagsRegex, left to right, none
\* overlapping another
RECURSIVE TokensFrom(_, _)
TokensFrom(s, i) ==
  IF i > Len(s) THEN <<>>
  ELSE LET m == MatchAt(s, i)
       IN  IF m.ok
             THEN << [start |-> i, end |-> m.end, name |-> m.name,
                      groups |-> m.groups] >> \o TokensFrom(s, m.end)
             ELSE TokensFrom(s, i + 1)

Tokens(s) == TokensFrom(s, 1)

\* the value a token stands for: what it captured, its name when it
\* captured nothing
TokenValue(tk) ==
  IF \E g \in DOMAIN tk.groups : tk.groups[g] # <<>>
    THEN tk.groups[CHOOSE g \in DOMAIN tk.groups : tk.groups[g] # <<>>]
    ELSE tk.name

\* the rightmost token of the name n
LastOf(tks, n) ==
  CHOOSE i \in DOMAIN tks :
    tks[i].name = n /\ \A j \in DOMAIN tks : tks[j].name = n => j <= i

\* the flag mapping of a text: each name that occurs, with the value of its
\* rightmost token
TokenFlags(s) ==
  LET tks == Tokens(s)
  IN  [n \in { tks[i].name : i \in DOMAIN tks } |-> TokenValue(tks[LastOf(tks, n)])]

\* the characters of s that lie in none of the tokens
RECURSIVE OutsideFrom(_, _, _)
OutsideFrom(s, tks, i) ==
  IF i > Len(s) THEN <<>>
  ELSE IF \E k \in DOMAIN tks : tks[k].start <= i /\ i < tks[k].end
    THEN OutsideFrom(s, tks, i + 1)
    ELSE << s[i] >> \o OutsideFrom(s, tks, i + 1)

Outside(s) == OutsideFrom(s, Tokens(s), 1)

\* the words of a text: its maximal runs of characters other than the space
RECURSIVE WordsFrom(_, _, _)
WordsFrom(s, i, cur) ==
  IF i > Len(s) THEN (IF cur = <<>> THEN <<>> ELSE << cur >>)
  ELSE IF s[i] = " "
    THEN (IF cur = <<>> THEN <<>> ELSE << cur >>) \o WordsFrom(s, i + 1, <<>>)
  ELSE WordsFrom(s, i + 1, Append(cur, s[i]))

Words(s) == WordsFrom(s, 1, <<>>)

\* the return point the last call of the command monitor took
ReturnPoint == calls'[Len(calls')].at

\* the text of ev is, flags and surplus spaces apart, the prefix, the name of
\* the registered command "a", and positional arguments
AddressesTheCommand ==
  /\ StartsWith(ev.Content, Prefix)
  /\ LET w == Words(Outside(ev.Content))
         h == Words(Prefix \o TheCommand)
     IN  Len(w) >= Len(h) /\ SubSeq(w, 1, Len(h)) = h

\* C14: a dispatch that passes every step (prefix, command found, locale
\* registered, validation gates, argument parsing, cooldown) invokes the
\* command's handler exactly once, the executed-command counter having been
\* incremented by exactly one, with a CommandContext whose Flags are the
\* flags of the message and whose RawArgs are exactly the positional words
\* after the command token (none when only flags follow the command name).
C14_CompleteDispatch ==
  [][ CommandMonitorCalled
      => /\ (AddressesTheCommand => ReturnPoint \in {"run", "parseArgs"})
         /\ ReturnPoint = "run"
            => /\ CommandsRan' = CommandsRan + 1
               /\ Len(ran') = Len(ran) + 1
               /\ LET c == ran'[Len(ran')]
                  IN  /\ c.Flags = TokenFlags(ev.Content)
                      /\ Words(Outside(ev.Content))
                           = Words(Prefix \o c.Command) \o c.RawArgs ]_vars

\* C14 witness: with prefix "!", the text "!a --aa" ran the command "a" once
\* with Flags = [aa -> aa] and no RawArgs, and the counter is 1.
C14_Witness ==
  /\ pc = "idle"
  /\ Prefix = << "!" >>
  /\ ev.Content = << "!", "a", " ", "-", "-", "a", "a" >>
  /\ CommandsRan = 1
  /\ Len(ran) = 1
  /\ ran[1].Command = TheCommand
  /\ ran[1].RawArgs = <<>>
  /\ DOMAIN ran[1].Flags = { << "a", "a" >> }
  /\ ran[1].Flags[<< "a", "a" >>] = << "a", "a" >>

(***************************************************************************)
(* Properties of the concurrent dispatch (specification SpecConc).         *)
(***************************************************************************)
\* every goroutine launched so far has finished its listener call
AllDone == \A g \in DOMAIN tasks : tasks[g].pc = "done"

\* C15 (as claimed): with events dispatched concurrently, bot.CommandsRan is
\* monotonic: no step decreases it and no increment is lost, so once all
\* dispatches have finished it equals the number of command-handler
\* invocations.
C15_CounterMonotonic ==
  [][ /\ CommandsRan' >= CommandsRan
      /\ AllDone' => CommandsRan' = Len(ran') ]_vars

\* C18: last match wins - when a message holds several flag tokens of the
\* same name, the flag mapping holds for that name the value of the
\* rightmost token (its name when that token has no =value), and every one
\* of the tokens is removed: the words of the cleaned text are the words of
\* the message outside its tokens.
C18_LastMatchWins ==
  Extracted
  => LET tks == Tokens(ev.Content)
     IN  /\ DOMAIN tok.flags = { tks[i].name : i \in DOMAIN tks }
         /\ \A n \in DOMAIN tok.flags : tok.flags[n] = TokenValue(tks[LastOf(tks, n)])
         /\ Words(tok.content) = Words(OutsideFrom(ev.Content, tks, 1))

\* C18 witness: the message holds two tokens of the name aa, the left one
\* with a value and the right one without; the mapping holds the name, the
\* right token's value, and neither token is left in the cleaned text.
C18_Witness ==
  /\ Extracted
  /\ LET tks == Tokens(ev.Content)
     IN  /\ Len(tks) = 2
         /\ tks[1].name = << "a", "a" >> /\ tks[2].name = << "a", "a" >>
         /\ TokenValue(tks[1]) = << "a" >>
         /\ TokenValue(tks[2]) = << "a", "a" >>
  /\ tok.flags[<< "a", "a" >>] = << "a", "a" >>
  /\ ~Contains(tok.content, << "-", "-" >>)

\* C19: whitespace repair - the cleaned text obtained after flag removal has
\* no leading space, no trailing space and no two consecutive spaces, so
\* splitting it on single spaces yields no empty positional argument.
C19_WhitespaceRepair ==
  Extracted
  => /\ tok.content # <<>> => tok.content[1] # " " /\ tok.content[Len(tok.content)] # " "
     /\ ~Contains(tok.content, << " ", " " >>)
     /\ \A k \in DOMAIN tok.args : tok.args[k] # <<>>

\* C19 witness: removing the flag from "a --aa a" leaves two spaces in a
\* row; the cleaned text is "a a", and the command "a" ran with the single
\* argument "a".
C19_Witness ==
  /\ pc = "idle"
  /\ ev.Content = << "a", " ", "-", "-", "a", "a", " ", "a" >>
  /\ tok.content = << "a", " ", "a" >>
  /\ tok.args = << << "a" >> >>
  /\ Len(ran) = 1
  /\ ran[1].RawArgs = << << "a" >> >>

(***************************************************************************)
(* Property of the flag values (specification SpecQuote).                  *)
(***************************************************************************)
\* the token captured v: one of its capture groups holds v, and v is not empty
Captured(tk, v) == v # <<>> /\ \E g \in DOMAIN tk.groups : tk.groups[g] = v

\* C20: every entry of the flag mapping built for a message has a non-empty
\* value: the non-empty value a token of that name captured, or, when the
\* token captured nothing (no =value, or an empty quoted value), the flag's
\* own name; no key is mapped to the empty string.
C20_FlagValuesNonEmpty ==
  Extracted
  => LET tks == Tokens(ev.Content)
     IN  \A n \in DOMAIN tok.flags :
           /\ tok.flags[n] # <<>>
           /\ \E i \in DOMAIN tks :
                /\ tks[i].name = n
                /\ \/ Captured(tks[i], tok.flags[n])
                   \/ /\ tok.flags[n] = n
                      /\ \A g \in DOMAIN tks[i].groups : tks[i].groups[g] = <<>>

\* C20 witness: the message is --aa="" ; the whole of it is one token that
\* captured nothing, and the mapping holds aa -> aa.
C20_Witness ==
  /\ Extracted
  /\ ev.Content = << "-", "-", "a", "a", "=", "\"", "\"" >>
  /\ Len(Tokens(ev.Content)) = 1
  /\ Tokens(ev.Content)[1].end = Len(ev.Content) + 1
  /\ tok.flags[<< "a", "a" >>] = << "a", "a" >>
  /\ tok.content = <<>>
====
